---- MODULE Spec2Model ----
(***************************************************************************)
(* Model of the W25Q64 SPI flash driver (src/W25Q64.hpp, src/W25Q64.cpp).  *)
(*                                                                         *)
(* The driver is a set of synchronous methods, each a straight-line        *)
(* sequence of chip-select writes, SPI transaction begin/end calls and     *)
(* byte transfers.  A method is modelled as an operator that threads a     *)
(* "world" record through these primitives, in the order of the source;    *)
(* one action per public method applies the operator to the current state. *)
(* Every primitive appends an event to the log of the current call, so     *)
(* that what a call put on the bus is part of the state.                   *)
(*                                                                         *)
(* The flash chip itself is not part of the repository.  It is modelled as *)
(* a byte-level reference device (Dev* operators) that decodes commands    *)
(* between a falling and a rising chip-select edge, as the data sheet      *)
(* describes.  Bytes the device does not drive are read as an arbitrary    *)
(* value z, chosen per call.                                               *)
(***************************************************************************)
EXTENDS Integers, Sequences, FiniteSets, TLC

VARIABLES
    cs_level,   \* level of the chip-select pin: LOW or HIGH
    pin_mode,   \* mode of the chip-select pin: "INPUT" until init, then "OUTPUT"
    in_txn,     \* TRUE between SPI.beginTransaction and SPI.endTransaction
    spi_clock,  \* clock of the SPISettings the bus was last configured with
    dev,        \* the flash device
    _cs_pin,    \* W25Q64::_cs_pin (NoPin until init sets it)
    _status,    \* W25Q64::_status
    caller,     \* the call each of two concurrent callers is making
    race,       \* history of the bus-level steps of the concurrent callers
    op,         \* name of the public method that just returned, or "none"
    args,       \* its arguments
    ret,        \* its return value
    out,        \* its output parameters (the caller's buffer after the call)
    log,        \* the bus events of that call, in order
    rt,         \* history of the program/read round trip (see RoundTrip)
    before      \* history: what held when the call began (see Before)

vars == <<cs_level, pin_mode, in_txn, spi_clock, dev, _cs_pin, _status,
          op, args, ret, out, log, rt, before, caller, race>>

-----------------------------------------------------------------------------
(* Program constants                                                       *)

W25Q64_WRITE_ENABLE              == \h06
W25Q64_VOLATILE_WRITE_ENABLE     == \h50
W25Q64_WRITE_DISABLE             == \h04
W25Q64_RELEASE_POWER_DOWN        == \hAB
W25Q64_MANUFACTURER_ID           == \h90
W25Q64_JEDEC_ID                  == \h9F
W25Q64_READ_UNIQUE_ID            == \h4B
W25Q64_READ_DATA                 == \h03
W25Q64_FAST_READ                 == \h0B
W25Q64_PAGE_PROGRAM              == \h02
W25Q64_SECTOR_ERASE              == \h20
W25Q64_BLOCK_32_ERASE            == \h52
W25Q64_BLOCK_64_ERASE            == \hD8
W25Q64_CHIP_ERASE                == \hC7
W25Q64_READ_STATUS_REGISTER_1    == \h05
W25Q64_WRITE_STATUS_REGISTER_1   == \h01
W25Q64_READ_STATUS_REGISTER_2    == \h35
W25Q64_WRITE_STATUS_REGISTER_2   == \h31
W25Q64_READ_STATUS_REGISTER_3    == \h15
W25Q64_WRITE_STATUS_REGISTER_3   == \h11
W25Q64_READ_SFDP_REGISTER        == \h5A
W25Q64_ERASE_SECURITY_REGISTER   == \h44
W25Q64_PROGRAM_SECURITY_REGISTER == \h42
W25Q64_READ_SECURITY_REGISTER    == \h48
W25Q64_ERASE_PROGRAM_SUSPEND     == \h75
W25Q64_ERASE_PROGRAM_RESUME      == \h7A
W25Q64_POWER_DOWN                == \hB9
W25Q64_ENABLE_RESET              == \h66
W25Q64_RESET_DEVICE              == \h99

W25Q64_SPI_SPEED           == 50000000
W25Q64_READ_DATA_SPI_SPEED == 50000000

\* W25Q64_status_t
W25Q64_OK                     == "W25Q64_OK"
W25Q64_BUSY                   == "W25Q64_BUSY"
W25Q64_UNKOWN_MANUFACTURER_ID == "W25Q64_UNKOWN_MANUFACTURER_ID"
W25Q64_UNKOWN_DEVICE_ID       == "W25Q64_UNKOWN_DEVICE_ID"
W25Q64_status_t == {W25Q64_OK, W25Q64_BUSY, W25Q64_UNKOWN_MANUFACTURER_ID,
                    W25Q64_UNKOWN_DEVICE_ID}

\* the two values of a C++ bool, as returned by busy()
true  == "true"
false == "false"

\* Arduino pin levels
LOW  == 0
HIGH == 1

-----------------------------------------------------------------------------
(* Bounds and input sets                                                   *)

MaxLen == 3                       \* capacity of the caller's buffers
NoPin  == 0 - 1                   \* _cs_pin before init
CsPins == {10}                    \* chip-select pins passed to init
Unset  == \hCC                    \* content of a buffer cell nobody wrote
\* 32-bit addresses; \h7F1234FE has bits 24..30 set and the low 24 bits of
\* \h1234FE (TLC's integers end at 2^31 - 1, so bit 31 stays clear);
\* two cells from the end of a page, so that MaxLen bytes cross into the next
Addrs     == {\h1234FE, \h7F1234FE}
DataBytes == {\h00, \hA5}         \* bytes the caller programs
RegBytes  == {\h00, \h02}         \* values written to a status register
FloatBytes == {\h00, \hFF}        \* what an undriven data line reads as
ManuIds   == {\hEF, \h00}         \* manufacturer ids a chip may have
DevIds    == {\h16, \h00}         \* device ids a chip may have
\* what a call finds on the bus: the value of an undriven line and the ids
\* of the attached chip; the calls that do not ask for the ids get a W25Q64
Wires   == [z : FloatBytes, manu : {\hEF}, id : {\h16}]
IdWires == [z : FloatBytes, manu : ManuIds, id : DevIds]
WriteBuffers == [1..MaxLen -> DataBytes]
EmptyBuffer  == [i \in 1..MaxLen |-> Unset]

\* inputs of the calls with a payload longer than a page of the device
LongLen == 257
LongLens == {0, LongLen - 1, LongLen}
LongAddrs == {\h000000, \h1234FE}
LongEmptyBuffer == [i \in 1..(LongLen + 1) |-> Unset]
LongData == [i \in 1..LongLen |-> (i * 3) % 256]

-----------------------------------------------------------------------------
(* Arithmetic on bytes                                                     *)

RECURSIVE BitAnd(_, _)
BitAnd(a, b) ==
    IF a = 0 \/ b = 0 THEN 0
    ELSE (a % 2) * (b % 2) + 2 * BitAnd(a \div 2, b \div 2)

RECURSIVE Pow2(_)
Pow2(n) == IF n = 0 THEN 1 ELSE 2 * Pow2(n - 1)

\* (byte)(x >> n) for an unsigned x
ShrByte(x, n) == (x \div Pow2(n)) % 256

\* the element of a one-element set: The({ e(x) : x \in {v} }) is e(v), with v
\* computed once
The(S) == CHOOSE x \in S : TRUE

-----------------------------------------------------------------------------
(* The reference device.                                                   *)
(*                                                                         *)
(* dev.cmd is the opcode of the command being received (NoCmd between a    *)
(* falling chip-select edge and the first byte, Ignored for a command the  *)
(* device does not accept), dev.pos the number of bytes received after the *)
(* opcode, dev.addr the address received, dev.buf the payload received.    *)
(* A write, program or erase command takes effect at the rising edge of    *)
(* chip-select.  dev.mem holds the cells that are not erased (\hFF).       *)

NoCmd   == 0 - 1
Ignored == 0 - 2
JedecMemoryType == \h40
JedecCapacity   == \h17
UniqueId == <<\hD1, \hD2, \hD3, \hD4, \hD5, \hD6, \hD7, \hD8>>
Erased   == \hFF

\* commands the device accepts while an erase or program is in progress
AcceptedWhileBusy ==
    {W25Q64_READ_STATUS_REGISTER_1, W25Q64_READ_STATUS_REGISTER_2,
     W25Q64_READ_STATUS_REGISTER_3, W25Q64_ERASE_PROGRAM_SUSPEND,
     W25Q64_ENABLE_RESET, W25Q64_RESET_DEVICE}

\* commands that carry a 24-bit address after the opcode
Addressed ==
    {W25Q64_MANUFACTURER_ID, W25Q64_READ_DATA, W25Q64_FAST_READ,
     W25Q64_PAGE_PROGRAM, W25Q64_SECTOR_ERASE, W25Q64_BLOCK_32_ERASE,
     W25Q64_BLOCK_64_ERASE, W25Q64_READ_SFDP_REGISTER,
     W25Q64_ERASE_SECURITY_REGISTER, W25Q64_PROGRAM_SECURITY_REGISTER,
     W25Q64_READ_SECURITY_REGISTER}

DevPowerOn ==
    [wel |-> FALSE, busy |-> FALSE, rst_en |-> FALSE, mem |-> <<>>,
     cmd |-> NoCmd, pos |-> 0, addr |-> 0, buf |-> <<>>]

\* status register 1: bit 0 is BUSY, bit 1 is the write-enable latch
DevStatus1(d) == (IF d.busy THEN 1 ELSE 0) + (IF d.wel THEN 2 ELSE 0)

DevMemRead(d, a) == IF a \in DOMAIN d.mem THEN d.mem[a] ELSE Erased

\* the i-th cell programmed from base: the address wraps inside its page
DevPageAddr(base, i) == (base - (base % 256)) + (((base % 256) + i) % 256)

\* memory after programming buf at base: bits are only cleared
DevProgram(d, base, buf) ==
    LET targets == {DevPageAddr(base, i - 1) : i \in 1..Len(buf)}
        idx(a)  == CHOOSE i \in 1..Len(buf) :
                      /\ DevPageAddr(base, i - 1) = a
                      /\ \A j \in 1..Len(buf) :
                            DevPageAddr(base, j - 1) = a => j <= i
        val(a)  == IF a \in targets
                   THEN BitAnd(DevMemRead(d, a), buf[idx(a)])
                   ELSE DevMemRead(d, a)
        cells   == {a \in (DOMAIN d.mem) \cup targets : val(a) # Erased}
    IN  [a \in cells |-> val(a)]

\* memory after erasing the aligned block of the given size that holds base
DevErase(d, base, size) ==
    LET lo    == base - (base % size)
        cells == {a \in DOMAIN d.mem : a < lo \/ a >= lo + size}
    IN  [a \in cells |-> d.mem[a]]

\* SFDP table: the signature "SFDP" at address 0, nothing modelled beyond it
DevSfdp(a) ==
    IF a = 0 THEN \h53 ELSE IF a = 1 THEN \h46
    ELSE IF a = 2 THEN \h44 ELSE IF a = 3 THEN \h50 ELSE Erased

\* the byte the device drives in answer to the byte at position d.pos of the
\* command d.cmd; w.z when it drives nothing.  w.manu and w.id are the
\* manufacturer and device id of the chip that is attached.
DevReply(d, w) ==
    LET c == d.cmd
        p == d.pos
    IN  IF c = W25Q64_READ_STATUS_REGISTER_1 THEN DevStatus1(d)
        ELSE IF c \in {W25Q64_READ_STATUS_REGISTER_2,
                       W25Q64_READ_STATUS_REGISTER_3} THEN 0
        ELSE IF c = W25Q64_MANUFACTURER_ID /\ p >= 3
             THEN (IF (p - 3) % 2 = 0 THEN w.manu ELSE w.id)
        ELSE IF c = W25Q64_JEDEC_ID /\ p <= 2
             THEN (IF p = 0 THEN w.manu
                   ELSE IF p = 1 THEN JedecMemoryType ELSE JedecCapacity)
        ELSE IF c = W25Q64_READ_UNIQUE_ID /\ p >= 4 /\ p < 12
             THEN UniqueId[p - 3]
        ELSE IF c = W25Q64_READ_DATA /\ p >= 3
             THEN DevMemRead(d, (d.addr + (p - 3)) % Pow2(24))
        ELSE IF c = W25Q64_FAST_READ /\ p >= 4
             THEN DevMemRead(d, (d.addr + (p - 4)) % Pow2(24))
        ELSE IF c = W25Q64_READ_SFDP_REGISTER /\ p >= 4
             THEN DevSfdp(d.addr + (p - 4))
        ELSE IF c = W25Q64_READ_SECURITY_REGISTER /\ p >= 4
             THEN Erased
        ELSE w.z

\* the device clocks in byte b while chip-select has the given level
DevTransfer(d, level, b, w) ==
    IF level = HIGH THEN [dev |-> d, rx |-> w.z]
    ELSE IF d.cmd = NoCmd
    THEN [dev |-> [d EXCEPT !.cmd = IF d.busy /\ b \notin AcceptedWhileBusy
                                     THEN Ignored ELSE b,
                            !.rst_en = @ /\ b = W25Q64_RESET_DEVICE],
          rx  |-> w.z]
    ELSE IF d.cmd = Ignored THEN [dev |-> d, rx |-> w.z]
    ELSE [dev |-> [d EXCEPT
                     !.pos  = IF d.cmd = W25Q64_READ_UNIQUE_ID /\ @ >= 12
                              THEN @ ELSE @ + 1,
                     !.addr = IF d.cmd \in Addressed /\ d.pos < 3
                              THEN @ * 256 + b ELSE @,
                     !.buf  = IF d.cmd \in {W25Q64_PAGE_PROGRAM,
                                            W25Q64_PROGRAM_SECURITY_REGISTER}
                                 /\ d.pos >= 3
                              THEN Append(@, b) ELSE @],
          rx  |-> DevReply(d, w)]

\* the command received takes effect when chip-select rises
DevExecute(d) ==
    LET c == d.cmd
        p == d.pos
    IN  IF c = W25Q64_WRITE_ENABLE /\ p = 0 THEN [d EXCEPT !.wel = TRUE]
        ELSE IF c = W25Q64_WRITE_DISABLE /\ p = 0 THEN [d EXCEPT !.wel = FALSE]
        ELSE IF c = W25Q64_PAGE_PROGRAM /\ p >= 4 /\ d.wel
             THEN [d EXCEPT !.mem = DevProgram(d, d.addr, d.buf), !.busy = TRUE]
        ELSE IF c = W25Q64_SECTOR_ERASE /\ p = 3 /\ d.wel
             THEN [d EXCEPT !.mem = DevErase(d, d.addr, 4096), !.busy = TRUE]
        ELSE IF c = W25Q64_BLOCK_32_ERASE /\ p = 3 /\ d.wel
             THEN [d EXCEPT !.mem = DevErase(d, d.addr, 32768), !.busy = TRUE]
        ELSE IF c = W25Q64_BLOCK_64_ERASE /\ p = 3 /\ d.wel
             THEN [d EXCEPT !.mem = DevErase(d, d.addr, 65536), !.busy = TRUE]
        ELSE IF c = W25Q64_CHIP_ERASE /\ p = 0 /\ d.wel
             THEN [d EXCEPT !.mem = <<>>, !.busy = TRUE]
        ELSE IF c \in {W25Q64_WRITE_STATUS_REGISTER_1,
                       W25Q64_WRITE_STATUS_REGISTER_2,
                       W25Q64_WRITE_STATUS_REGISTER_3} /\ p = 1 /\ d.wel
             THEN [d EXCEPT !.busy = TRUE]
        ELSE IF c = W25Q64_ERASE_SECURITY_REGISTER /\ p = 3 /\ d.wel
             THEN [d EXCEPT !.busy = TRUE]
        ELSE IF c = W25Q64_PROGRAM_SECURITY_REGISTER /\ p >= 4 /\ d.wel
             THEN [d EXCEPT !.busy = TRUE]
        ELSE IF c = W25Q64_ENABLE_RESET /\ p = 0
             THEN [d EXCEPT !.rst_en = TRUE]
        ELSE IF c = W25Q64_RESET_DEVICE /\ p = 0 /\ d.rst_en
             THEN [d EXCEPT !.wel = FALSE, !.busy = FALSE, !.rst_en = FALSE]
        ELSE d

\* the device sees chip-select go from level old to level new
DevChipSelect(d, old, new) ==
    IF old = HIGH /\ new = LOW
    THEN [d EXCEPT !.cmd = NoCmd, !.pos = 0, !.addr = 0, !.buf = <<>>]
    ELSE IF old = LOW /\ new = HIGH
    THEN [DevExecute(d) EXCEPT !.cmd = NoCmd, !.pos = 0, !.addr = 0,
                               !.buf = <<>>]
    ELSE d

-----------------------------------------------------------------------------
(* The world a method runs in, and the Arduino primitives it calls.        *)
(*                                                                         *)
(* s.cs, s.mode, s.txn, s.clk, s.dev, s.pin and s.status are the variables *)
(* cs_level .. _status; s.log is the log of the call, s.rx the byte the    *)
(* last transfer received, s.wire what the call finds on the bus (the      *)
(* value z of an undriven data line and the ids of the attached chip),     *)
(* s.ret and s.out the return value and output parameters of the method.   *)

Ev(e, tx, rx, k) == [e |-> e, tx |-> tx, rx |-> rx, k |-> k]

\* pinMode(pin, OUTPUT)
pinMode(s) ==
    [s EXCEPT !.mode = "OUTPUT", !.log = Append(@, Ev("mode", 0, 0, "OUTPUT"))]

\* digitalWrite(_cs_pin, level)
digitalWrite(s, level) ==
    [s EXCEPT !.cs  = level,
              !.dev = DevChipSelect(@, s.cs, level),
              !.log = Append(@, Ev("cs", level, 0, ""))]

\* SPI.beginTransaction(SPISettings(clock, MSBFIRST, SPI_MODE_0))
beginTransaction(s, clock) ==
    [s EXCEPT !.txn = TRUE, !.clk = clock,
              !.log = Append(@, Ev("begin", clock, 0, ""))]

\* SPI.endTransaction()
endTransaction(s) ==
    [s EXCEPT !.txn = FALSE, !.log = Append(@, Ev("end", 0, 0, ""))]

\* SPI.transfer(b); k names what the source sends the byte as
transfer(s, b, k) ==
    The({ [s EXCEPT !.dev = r.dev, !.rx = r.rx,
                    !.log = Append(@, Ev("xfer", b, r.rx, k))]
          : r \in {DevTransfer(s.dev, s.cs, b, s.wire)} })

\* SPISettings _spi_settings
_spi_settings == W25Q64_SPI_SPEED

\* mutant: the transaction is opened without asserting chip-select
_select_no_assert(s) == beginTransaction(s, _spi_settings)

_select(s) == beginTransaction(digitalWrite(s, LOW), _spi_settings)

_release(s) == endTransaction(digitalWrite(s, HIGH))

\* return v, with the output parameters o
Return(s, v, o) == [s EXCEPT !.ret = v, !.out = o]

-----------------------------------------------------------------------------
(* Loops of the methods                                                    *)

\* for(int i = 0; i < n; i ++){ buff[i] = SPI.transfer(0); }
\* and: for(...){ *unique_id = SPI.transfer(0); *unique_id ++; }
RECURSIVE ReadInto(_, _, _)
ReadInto(s, i, n) ==
    IF i < n
    THEN ReadInto(The({ [s1 EXCEPT !.out = Append(@, s1.rx)]
                        : s1 \in {transfer(s, 0, "read")} }), i + 1, n)
    ELSE s

\* for(int i = 0; i < n; i ++){ SPI.transfer(0); }
RECURSIVE Dummies(_, _, _)
Dummies(s, i, n) ==
    IF i < n THEN Dummies(transfer(s, 0, "dummy"), i + 1, n) ELSE s

\* mutant: the address goes out least significant byte first
RECURSIVE SendAddress_lsb_first(_, _, _)
SendAddress_lsb_first(s, addr, i) ==
    IF i < 3
    THEN SendAddress_lsb_first(transfer(s, ShrByte(addr, i * 8), "addr"),
                               addr, i + 1)
    ELSE s

\* for(int i = 0; i < 3; i ++){ SPI.transfer((byte)(addr >> ((2-i)*8))); }
RECURSIVE SendAddress(_, _, _)
SendAddress(s, addr, i) ==
    IF i < 3
    THEN SendAddress(transfer(s, ShrByte(addr, (2 - i) * 8), "addr"), addr, i + 1)
    ELSE s

\* mutant: the read stops at the end of a 256-byte page
RECURSIVE ReadLoop_capped(_, _, _)
ReadLoop_capped(s, p, len) ==
    IF len <= 0 \/ p > 256 THEN s
    ELSE IF len = 1
    THEN The({ [s1 EXCEPT !.out[p] = s1.rx] : s1 \in {transfer(s, 0, "read")} })
    ELSE The({ ReadLoop_capped(s1, p + (len \div 2), len - (len \div 2))
               : s1 \in {ReadLoop_capped(s, p, len \div 2)} })

\* while(len > 0){ *buff = SPI.transfer(0); *buff ++; len --; }
\* p is the index of the cell buff points to.  The len passes of the loop
\* are the first len \div 2 passes followed by the rest, so that a long loop
\* is evaluated in logarithmic depth; one pass is the case len = 1.
RECURSIVE ReadLoop(_, _, _)
ReadLoop(s, p, len) ==
    IF len <= 0 THEN s
    ELSE IF len = 1
    THEN The({ [s1 EXCEPT !.out[p] = s1.rx] : s1 \in {transfer(s, 0, "read")} })
    ELSE The({ ReadLoop(s1, p + (len \div 2), len - (len \div 2))
               : s1 \in {ReadLoop(s, p, len \div 2)} })

\* while(len > 0){ SPI.transfer(*buff); *buff ++; len --; }
\* composed of its passes in the same way as ReadLoop
RECURSIVE WriteLoop(_, _, _, _)
WriteLoop(s, buff, p, len) ==
    IF len <= 0 THEN s
    ELSE IF len = 1 THEN transfer(s, buff[p], "write")
    ELSE The({ WriteLoop(s1, buff, p + (len \div 2), len - (len \div 2))
               : s1 \in {WriteLoop(s, buff, p, len \div 2)} })

-----------------------------------------------------------------------------
(* The methods of W25Q64, as in W25Q64.cpp.  s.out is the caller's buffer  *)
(* on entry and holds the output parameters on return.  A name bound by    *)
(* The({ .. : x \in {e} }) is the world after the statements e.            *)

writeEnable(s) ==
    Return(_release(transfer(_select(s), W25Q64_WRITE_ENABLE, "opcode")),
           W25Q64_OK, <<>>)

volatileWriteEnable(s) ==
    Return(_release(transfer(_select(s), W25Q64_VOLATILE_WRITE_ENABLE, "opcode")),
           W25Q64_OK, <<>>)

\* mutant: the stored status is what is returned
writeDisable_stored_status(s) ==
    Return(_release(transfer(_select(s), W25Q64_WRITE_DISABLE, "opcode")),
           s.status, <<>>)

writeDisable(s) ==
    Return(_release(transfer(_select(s), W25Q64_WRITE_DISABLE, "opcode")),
           W25Q64_OK, <<>>)

releasePowerDown(s) ==
    Return(_release(transfer(_select(s), W25Q64_RELEASE_POWER_DOWN, "opcode")),
           W25Q64_OK, <<>>)

\* mutant: the ids are taken one byte early
readManufacturerId_early(s) ==
    The({ Return(_release(s2), W25Q64_OK, <<s2.out[2 + 1], s2.out[3 + 1]>>)
          : s2 \in {ReadInto([transfer(_select(s), W25Q64_MANUFACTURER_ID,
                                       "opcode") EXCEPT !.out = <<>>], 0, 5)} })

\* out = <<*manufacturer_id, *device_id>>; s2.out is buff
readManufacturerId(s) ==
    The({ Return(_release(s2), W25Q64_OK, <<s2.out[3 + 1], s2.out[4 + 1]>>)
          : s2 \in {ReadInto([transfer(_select(s), W25Q64_MANUFACTURER_ID,
                                       "opcode") EXCEPT !.out = <<>>], 0, 5)} })

\* mutant: the method is gated by a busy check, like the data reads
readJedecId_gated(s) ==
    The({ IF b.rx % 2 # 0 THEN Return(b, W25Q64_BUSY, <<>>)
          ELSE The({ Return(_release(s4), W25Q64_OK, s4.out)
                     : s4 \in {ReadInto([transfer(_select(b), W25Q64_JEDEC_ID,
                                                  "opcode")
                                           EXCEPT !.out = <<>>], 0, 3)} })
          : b \in {_release(transfer(transfer(_select(s),
                                              W25Q64_READ_STATUS_REGISTER_1,
                                              "opcode"), 0, "read"))} })

\* mutant: a dummy byte is clocked before the three id bytes
readJedecId_dummy(s) ==
    The({ Return(_release(s4), W25Q64_OK, s4.out)
          : s4 \in {ReadInto([transfer(transfer(_select(s), W25Q64_JEDEC_ID,
                                                "opcode"), 0, "dummy")
                                EXCEPT !.out = <<>>], 0, 3)} })

\* out = <<*manufacturer_id, *memory_type, *capacity>>: the three bytes read
\* by the three SPI.transfer(0) that follow the opcode
readJedecId(s) ==
    The({ Return(_release(s4), W25Q64_OK, s4.out)
          : s4 \in {ReadInto([transfer(_select(s), W25Q64_JEDEC_ID, "opcode")
                                EXCEPT !.out = <<>>], 0, 3)} })

\* mutant: five dummy bytes are sent before the id is read
readUniqueId_five_dummies(s) ==
    The({ Return(s3, W25Q64_OK, s3.out)
          : s3 \in {ReadInto([Dummies(transfer(_select(s), W25Q64_READ_UNIQUE_ID,
                                               "opcode"), 0, 5)
                                EXCEPT !.out = <<>>], 0, 8)} })

\* out = unique_id[0..7]; the method returns without _release()
readUniqueId(s) ==
    The({ Return(s3, W25Q64_OK, s3.out)
          : s3 \in {ReadInto([Dummies(transfer(_select(s), W25Q64_READ_UNIQUE_ID,
                                               "opcode"), 0, 4)
                                EXCEPT !.out = <<>>], 0, 8)} })

\* out = <<*reg>>
readStatusRegister1(s) ==
    The({ Return(_release(s2), W25Q64_OK, <<s2.rx>>)
          : s2 \in {transfer(transfer(_select(s), W25Q64_READ_STATUS_REGISTER_1,
                                      "opcode"), 0, "read")} })

readStatusRegister2(s) ==
    The({ Return(_release(s2), W25Q64_OK, <<s2.rx>>)
          : s2 \in {transfer(transfer(_select(s), W25Q64_READ_STATUS_REGISTER_2,
                                      "opcode"), 0, "read")} })

readStatusRegister3(s) ==
    The({ Return(_release(s2), W25Q64_OK, <<s2.rx>>)
          : s2 \in {transfer(transfer(_select(s), W25Q64_READ_STATUS_REGISTER_3,
                                      "opcode"), 0, "read")} })

\* status_reg_1 & 0b00000001
BusyBit(status_reg_1) == status_reg_1 % 2

\* mutant: the test of the busy bit is inverted
busy_inverted(s) ==
    The({ Return(s1, IF BusyBit(s1.out[1]) # 0 THEN false ELSE true, s.out)
          : s1 \in {readStatusRegister1(s)} })

\* bool busy(); s1.out[1] is status_reg_1; the caller's buffer s.out is left
\* as it was
busy(s) ==
    The({ Return(s1, IF BusyBit(s1.out[1]) # 0 THEN true ELSE false, s.out)
          : s1 \in {readStatusRegister1(s)} })

enableReset(s) ==
    Return(_release(transfer(_select(s), W25Q64_ENABLE_RESET, "opcode")),
           W25Q64_OK, <<>>)

resetDevice(s) ==
    Return(_release(transfer(_select(s), W25Q64_RESET_DEVICE, "opcode")),
           W25Q64_OK, <<>>)

\* mutant: the two commands of the reset sequence are swapped
reset_swapped(s) ==
    The({ IF b.ret = true THEN Return(b, W25Q64_BUSY, <<>>)
          ELSE Return(enableReset(resetDevice(b)), W25Q64_OK, <<>>)
          : b \in {busy(s)} })

reset(s) ==
    The({ IF b.ret = true THEN Return(b, W25Q64_BUSY, <<>>)
          ELSE Return(resetDevice(enableReset(b)), W25Q64_OK, <<>>)
          : b \in {busy(s)} })

\* pinMode, digitalWrite(HIGH), SPI.begin(), then the id query of init
InitQuery(s, cs_pin) ==
    readManufacturerId(
        [digitalWrite(pinMode([s EXCEPT !.pin = cs_pin]), HIGH)
           EXCEPT !.log = Append(@, Ev("spi_begin", 0, 0, ""))])

\* mutant: the device id is tested before the manufacturer id
init_device_first(s, cs_pin) ==
    The({ IF s3.out[2] # \h16
          THEN Return([s3 EXCEPT !.status = s3.ret],
                      W25Q64_UNKOWN_DEVICE_ID, <<>>)
          ELSE IF s3.out[1] # \hEF
          THEN Return([s3 EXCEPT !.status = s3.ret],
                      W25Q64_UNKOWN_MANUFACTURER_ID, <<>>)
          ELSE Return([s3 EXCEPT !.status = s3.ret], W25Q64_OK, <<>>)
          : s3 \in {InitQuery(s, cs_pin)} })

\* s3.out is <<manufacturer_id, device_id>>, s3.ret what _status is set to
init(s, cs_pin) ==
    The({ IF s3.out[1] # \hEF
          THEN Return([s3 EXCEPT !.status = s3.ret],
                      W25Q64_UNKOWN_MANUFACTURER_ID, <<>>)
          ELSE IF s3.out[2] # \h16
          THEN Return([s3 EXCEPT !.status = s3.ret],
                      W25Q64_UNKOWN_DEVICE_ID, <<>>)
          ELSE Return([s3 EXCEPT !.status = s3.ret], W25Q64_OK, <<>>)
          : s3 \in {InitQuery(s, cs_pin)} })

\* mutant: the bus is not reconfigured for the sequential read
readData_default_rate(s, addr, len) ==
    The({ IF b.ret = true THEN Return(b, W25Q64_BUSY, s.out)
          ELSE The({ Return(_release(s3), W25Q64_OK, s3.out)
                     : s3 \in {ReadLoop(
                                 SendAddress(
                                   transfer(_select(b), W25Q64_READ_DATA,
                                            "opcode"),
                                   addr, 0),
                                 1, len)} })
          : b \in {busy(s)} })

\* _select() and a second SPI.beginTransaction at the read-data speed
readData(s, addr, len) ==
    The({ IF b.ret = true THEN Return(b, W25Q64_BUSY, s.out)
          ELSE The({ Return(_release(s3), W25Q64_OK, s3.out)
                     : s3 \in {ReadLoop(
                                 SendAddress(
                                   transfer(
                                     beginTransaction(_select(b),
                                         W25Q64_READ_DATA_SPI_SPEED),
                                     W25Q64_READ_DATA, "opcode"),
                                   addr, 0),
                                 1, len)} })
          : b \in {busy(s)} })

\* mutant: the payload is read directly after the address
fastRead_no_dummy(s, addr, len) ==
    The({ IF b.ret = true THEN Return(b, W25Q64_BUSY, s.out)
          ELSE The({ Return(_release(s3), W25Q64_OK, s3.out)
                     : s3 \in {ReadLoop(
                                 SendAddress(
                                   transfer(_select(b), W25Q64_FAST_READ,
                                            "opcode"),
                                   addr, 0),
                                 1, len)} })
          : b \in {busy(s)} })

fastRead(s, addr, len) ==
    The({ IF b.ret = true THEN Return(b, W25Q64_BUSY, s.out)
          ELSE The({ Return(_release(s3), W25Q64_OK, s3.out)
                     : s3 \in {ReadLoop(
                                 transfer(
                                   SendAddress(
                                     transfer(_select(b), W25Q64_FAST_READ,
                                              "opcode"),
                                     addr, 0),
                                   0, "dummy"),
                                 1, len)} })
          : b \in {busy(s)} })

\* mutant: the result of the busy check is not acted on
pageProgram_ungated(s, addr, buff, len) ==
    Return(_release(WriteLoop(
                      SendAddress(
                        transfer(_select(busy(s)), W25Q64_PAGE_PROGRAM, "opcode"),
                        addr, 0),
                      buff, 1, len)),
           W25Q64_OK, s.out)

pageProgram(s, addr, buff, len) ==
    The({ IF b.ret = true THEN Return(b, W25Q64_BUSY, s.out)
          ELSE Return(_release(WriteLoop(
                                 SendAddress(
                                   transfer(_select(b), W25Q64_PAGE_PROGRAM,
                                            "opcode"),
                                   addr, 0),
                                 buff, 1, len)),
                      W25Q64_OK, s.out)
          : b \in {busy(s)} })

\* mutant: the driver sends write-enable itself before the erase command
sectorErase_auto_enable(s, addr) ==
    The({ IF b.ret = true THEN Return(b, W25Q64_BUSY, <<>>)
          ELSE Return(_release(SendAddress(
                                 transfer(_select(writeEnable(b)),
                                          W25Q64_SECTOR_ERASE, "opcode"),
                                 addr, 0)),
                      W25Q64_OK, <<>>)
          : b \in {busy(s)} })

sectorErase(s, addr) ==
    The({ IF b.ret = true THEN Return(b, W25Q64_BUSY, <<>>)
          ELSE Return(_release(SendAddress(
                                 transfer(_select(b), W25Q64_SECTOR_ERASE,
                                          "opcode"),
                                 addr, 0)),
                      W25Q64_OK, <<>>)
          : b \in {busy(s)} })

block32Erase(s, addr) ==
    The({ IF b.ret = true THEN Return(b, W25Q64_BUSY, <<>>)
          ELSE Return(_release(SendAddress(
                                 transfer(_select(b), W25Q64_BLOCK_32_ERASE,
                                          "opcode"),
                                 addr, 0)),
                      W25Q64_OK, <<>>)
          : b \in {busy(s)} })

block64Erase(s, addr) ==
    The({ IF b.ret = true THEN Return(b, W25Q64_BUSY, <<>>)
          ELSE Return(_release(SendAddress(
                                 transfer(_select(b), W25Q64_BLOCK_64_ERASE,
                                          "opcode"),
                                 addr, 0)),
                      W25Q64_OK, <<>>)
          : b \in {busy(s)} })

\* mutant: the busy check is made a second time when the first reads busy
chipErase_polling(s) ==
    The({ IF b.ret = true THEN Return(b, W25Q64_BUSY, <<>>)
          ELSE Return(_release(transfer(_select(b), W25Q64_CHIP_ERASE, "opcode")),
                      W25Q64_OK, <<>>)
          : b \in {The({ IF b1.ret = true THEN busy(b1) ELSE b1
                         : b1 \in {busy(s)} })} })

chipErase(s) ==
    The({ IF b.ret = true THEN Return(b, W25Q64_BUSY, <<>>)
          ELSE Return(_release(transfer(_select(b), W25Q64_CHIP_ERASE, "opcode")),
                      W25Q64_OK, <<>>)
          : b \in {busy(s)} })

writeStatusRegister1(s, reg) ==
    The({ IF b.ret = true THEN Return(b, W25Q64_BUSY, <<>>)
          ELSE Return(_release(transfer(
                                 transfer(_select(b),
                                          W25Q64_WRITE_STATUS_REGISTER_1,
                                          "opcode"),
                                 reg, "write")),
                      W25Q64_OK, <<>>)
          : b \in {busy(s)} })

writeStatusRegister2(s, reg) ==
    The({ IF b.ret = true THEN Return(b, W25Q64_BUSY, <<>>)
          ELSE Return(_release(transfer(
                                 transfer(_select(b),
                                          W25Q64_WRITE_STATUS_REGISTER_2,
                                          "opcode"),
                                 reg, "write")),
                      W25Q64_OK, <<>>)
          : b \in {busy(s)} })

writeStatusRegister3(s, reg) ==
    The({ IF b.ret = true THEN Return(b, W25Q64_BUSY, <<>>)
          ELSE Return(_release(transfer(
                                 transfer(_select(b),
                                          W25Q64_WRITE_STATUS_REGISTER_3,
                                          "opcode"),
                                 reg, "write")),
                      W25Q64_OK, <<>>)
          : b \in {busy(s)} })

readSFDPRegister(s, addr, len) ==
    The({ IF b.ret = true THEN Return(b, W25Q64_BUSY, s.out)
          ELSE The({ Return(_release(s3), W25Q64_OK, s3.out)
                     : s3 \in {ReadLoop(
                                 transfer(
                                   SendAddress(
                                     transfer(_select(b),
                                              W25Q64_READ_SFDP_REGISTER,
                                              "opcode"),
                                     addr, 0),
                                   0, "dummy"),
                                 1, len)} })
          : b \in {busy(s)} })

eraseSecurityRegister(s, addr) ==
    The({ IF b.ret = true THEN Return(b, W25Q64_BUSY, <<>>)
          ELSE Return(_release(SendAddress(
                                 transfer(_select(b),
                                          W25Q64_ERASE_SECURITY_REGISTER,
                                          "opcode"),
                                 addr, 0)),
                      W25Q64_OK, <<>>)
          : b \in {busy(s)} })

programSecurityRegister(s, addr, buff, len) ==
    The({ IF b.ret = true THEN Return(b, W25Q64_BUSY, s.out)
          ELSE Return(_release(WriteLoop(
                                 SendAddress(
                                   transfer(_select(b),
                                            W25Q64_PROGRAM_SECURITY_REGISTER,
                                            "opcode"),
                                   addr, 0),
                                 buff, 1, len)),
                      W25Q64_OK, s.out)
          : b \in {busy(s)} })

readSecurityRegister(s, addr, len) ==
    The({ IF b.ret = true THEN Return(b, W25Q64_BUSY, s.out)
          ELSE The({ Return(_release(s3), W25Q64_OK, s3.out)
                     : s3 \in {ReadLoop(
                                 transfer(
                                   SendAddress(
                                     transfer(_select(b),
                                              W25Q64_READ_SECURITY_REGISTER,
                                              "opcode"),
                                     addr, 0),
                                   0, "dummy"),
                                 1, len)} })
          : b \in {busy(s)} })

eraseProgramSuspend(s) ==
    Return(_release(transfer(_select(s), W25Q64_ERASE_PROGRAM_SUSPEND, "opcode")),
           W25Q64_OK, <<>>)

eraseProgramResume(s) ==
    Return(_release(transfer(_select(s), W25Q64_ERASE_PROGRAM_RESUME, "opcode")),
           W25Q64_OK, <<>>)

\* mutant: the command is gated by a busy check
powerDown_gated(s) ==
    The({ IF b.ret = true THEN Return(b, W25Q64_BUSY, <<>>)
          ELSE Return(_release(transfer(_select(b), W25Q64_POWER_DOWN, "opcode")),
                      W25Q64_OK, <<>>)
          : b \in {busy(s)} })

powerDown(s) ==
    Return(_release(transfer(_select(s), W25Q64_POWER_DOWN, "opcode")),
           W25Q64_OK, <<>>)

-----------------------------------------------------------------------------
(* The calls of a single caller, one after another.  A call is one step; it *)
(* leaves its record in op, args, ret, out and log.  The caller then takes *)
(* the result (Forget), which drops the record, and may call again.        *)

NoArgs == [addr |-> 0, len |-> 0, buff |-> <<>>, reg |-> 0]
AddrArgs(addr)            == [NoArgs EXCEPT !.addr = addr]
ReadArgs(addr, len)       == [NoArgs EXCEPT !.addr = addr, !.len = len]
WriteArgs(addr, buff, len) ==
    [NoArgs EXCEPT !.addr = addr, !.buff = buff, !.len = len]
RegArgs(reg)              == [NoArgs EXCEPT !.reg = reg]

\* the world at the start of a call whose caller passes the buffer buff
Start(w, buff) ==
    [cs |-> cs_level, mode |-> pin_mode, txn |-> in_txn, clk |-> spi_clock,
     dev |-> dev, pin |-> _cs_pin, status |-> _status,
     log |-> <<>>, rx |-> 0, wire |-> w, ret |-> "", out |-> buff]

NoRoundTrip == [stage |-> 0, addr |-> 0, data |-> <<>>]

\* the cells addr .. addr+len-1 lie in one page of the device and are erased
ErasedInOnePage(d, addr, len) ==
    /\ (addr % 256) + len <= 256
    /\ \A i \in 0..(len - 1) : DevMemRead(d, (addr % Pow2(24)) + i) = Erased

\* History of the round trip: stage 1 after writeEnable(); stage 2 after a
\* pageProgram that directly follows it, returns W25Q64_OK and programs
\* erased cells of one page; stage 3 after a readData of the same address and
\* length that directly follows and returns W25Q64_OK.
RoundTrip(name, a, r) ==
    IF name = "writeEnable" THEN [NoRoundTrip EXCEPT !.stage = 1]
    ELSE IF /\ name = "pageProgram" /\ rt.stage = 1 /\ r.ret = W25Q64_OK
            /\ ErasedInOnePage(dev, a.addr, a.len)
    THEN [stage |-> 2, addr |-> a.addr, data |-> SubSeq(a.buff, 1, a.len)]
    ELSE IF /\ name = "readData" /\ rt.stage = 2 /\ r.ret = W25Q64_OK
            /\ a.addr = rt.addr /\ a.len = Len(rt.data)
    THEN [rt EXCEPT !.stage = 3]
    ELSE NoRoundTrip

\* Two callers that use the same handle at the same time
Callers == {1, 2}

\* the call of a concurrent caller: the method, the number of its next
\* bus-level step (0 outside a call) and the status byte its busy() read
NotCalling == [name |-> "none", pc |-> 0, st |-> 0]

\* the concurrent callers make at most MaxCalls calls between them
MaxCalls == 2

\* a bus-level step: k is the primitive, v its argument, n what a byte is
\* sent as
Ins(k, v, n) == [k |-> k, v |-> v, n |-> n]

\* History of the steps of the concurrent callers: the caller whose _select
\* drove chip-select low (0 while it is high); for each caller in a call,
\* whether the device was ready when the status byte of its busy() was
\* read; the caller whose command, sent in its own chip-select window and
\* ended by its own _release, made the device busy (0 if it is not busy or
\* it was no such command); whether a byte of one caller has been
\* transferred in the window of the other, who was still in its call; the
\* caller, if any, whose last step sent its page-program opcode to a device
\* that was ready at that caller's busy() and that the other caller's
\* command made busy since; the number of calls made.
NoRace == [window |-> 0,
           readyAtCheck |-> [c \in Callers |-> FALSE],
           busiedBy |-> 0, foreignByte |-> FALSE, lateCommand |-> 0,
           calls |-> 0]

\* History of a call: the level of chip-select and the busy bit of the
\* device when the call began, and whether the call before it was a readData
\* that sent its command.  Between two calls only the last is kept.
NoBefore == [cs |-> HIGH, busy |-> FALSE, readData |-> FALSE]
Before == [before EXCEPT !.cs = cs_level, !.busy = dev.busy]
After == [NoBefore EXCEPT !.readData = (op = "readData" /\ ret = W25Q64_OK)]

\* the state after the call name(a) that ended in the world r
Finish(name, a, r) ==
    /\ cs_level' = r.cs
    /\ pin_mode' = r.mode
    /\ in_txn' = r.txn
    /\ spi_clock' = r.clk
    /\ dev' = r.dev
    /\ _cs_pin' = r.pin
    /\ _status' = r.status
    /\ op' = name
    /\ args' = a
    /\ ret' = r.ret
    /\ out' = r.out
    /\ log' = r.log
    /\ rt' = RoundTrip(name, a, r)
    /\ before' = Before
    /\ UNCHANGED <<caller, race>>

Init ==
    /\ cs_level = HIGH
    /\ pin_mode = "INPUT"
    /\ in_txn = FALSE
    /\ spi_clock = 0
    /\ dev = DevPowerOn
    /\ _cs_pin = NoPin
    /\ _status \in W25Q64_status_t
    /\ op = "none"
    /\ args = NoArgs
    /\ ret = ""
    /\ out = <<>>
    /\ log = <<>>
    /\ rt = NoRoundTrip
    /\ before = NoBefore
    /\ caller = [c \in Callers |-> NotCalling]
    /\ race = NoRace

\* no call is in progress
Idle == op = "none"

Call_init ==
    /\ Idle
    /\ \E w \in IdWires, cs_pin \in CsPins :
          Finish("init", NoArgs, init(Start(w, <<>>), cs_pin))

\* every other method uses _cs_pin, which init sets
Ready == Idle /\ _cs_pin # NoPin

Call_busy ==
    /\ Ready
    /\ \E w \in Wires : Finish("busy", NoArgs, busy(Start(w, <<>>)))

Call_reset ==
    /\ Ready
    /\ \E w \in Wires : Finish("reset", NoArgs, reset(Start(w, <<>>)))

Call_writeEnable ==
    /\ Ready
    /\ \E w \in Wires :
          Finish("writeEnable", NoArgs, writeEnable(Start(w, <<>>)))

Call_volatileWriteEnable ==
    /\ Ready
    /\ \E w \in Wires :
          Finish("volatileWriteEnable", NoArgs, volatileWriteEnable(Start(w, <<>>)))

Call_writeDisable ==
    /\ Ready
    /\ \E w \in Wires :
          Finish("writeDisable", NoArgs, writeDisable(Start(w, <<>>)))

Call_releasePowerDown ==
    /\ Ready
    /\ \E w \in Wires :
          Finish("releasePowerDown", NoArgs, releasePowerDown(Start(w, <<>>)))

Call_readManufacturerId ==
    /\ Ready
    /\ \E w \in IdWires :
          Finish("readManufacturerId", NoArgs, readManufacturerId(Start(w, <<>>)))

Call_readJedecId ==
    /\ Ready
    /\ \E w \in IdWires :
          Finish("readJedecId", NoArgs, readJedecId(Start(w, <<>>)))

Call_readUniqueId ==
    /\ Ready
    /\ \E w \in Wires :
          Finish("readUniqueId", NoArgs, readUniqueId(Start(w, <<>>)))

Call_readData ==
    /\ Ready
    /\ \E w \in Wires, addr \in Addrs, len \in 0..MaxLen :
          Finish("readData", ReadArgs(addr, len),
                 readData(Start(w, EmptyBuffer), addr, len))

Call_fastRead ==
    /\ Ready
    /\ \E w \in Wires, addr \in Addrs, len \in 0..MaxLen :
          Finish("fastRead", ReadArgs(addr, len),
                 fastRead(Start(w, EmptyBuffer), addr, len))

Call_pageProgram ==
    /\ Ready
    /\ \E w \in Wires, addr \in Addrs, buff \in WriteBuffers,
          len \in 0..MaxLen :
          Finish("pageProgram", WriteArgs(addr, buff, len),
                 pageProgram(Start(w, buff), addr, buff, len))

Call_sectorErase ==
    /\ Ready
    /\ \E w \in Wires, addr \in Addrs :
          Finish("sectorErase", AddrArgs(addr), sectorErase(Start(w, <<>>), addr))

Call_block32Erase ==
    /\ Ready
    /\ \E w \in Wires, addr \in Addrs :
          Finish("block32Erase", AddrArgs(addr), block32Erase(Start(w, <<>>), addr))

Call_block64Erase ==
    /\ Ready
    /\ \E w \in Wires, addr \in Addrs :
          Finish("block64Erase", AddrArgs(addr), block64Erase(Start(w, <<>>), addr))

Call_chipErase ==
    /\ Ready
    /\ \E w \in Wires : Finish("chipErase", NoArgs, chipErase(Start(w, <<>>)))

Call_readStatusRegister1 ==
    /\ Ready
    /\ \E w \in Wires :
          Finish("readStatusRegister1", NoArgs, readStatusRegister1(Start(w, <<>>)))

Call_writeStatusRegister1 ==
    /\ Ready
    /\ \E w \in Wires, reg \in RegBytes :
          Finish("writeStatusRegister1", RegArgs(reg),
                 writeStatusRegister1(Start(w, <<>>), reg))

Call_readStatusRegister2 ==
    /\ Ready
    /\ \E w \in Wires :
          Finish("readStatusRegister2", NoArgs, readStatusRegister2(Start(w, <<>>)))

Call_writeStatusRegister2 ==
    /\ Ready
    /\ \E w \in Wires, reg \in RegBytes :
          Finish("writeStatusRegister2", RegArgs(reg),
                 writeStatusRegister2(Start(w, <<>>), reg))

Call_readStatusRegister3 ==
    /\ Ready
    /\ \E w \in Wires :
          Finish("readStatusRegister3", NoArgs, readStatusRegister3(Start(w, <<>>)))

Call_writeStatusRegister3 ==
    /\ Ready
    /\ \E w \in Wires, reg \in RegBytes :
          Finish("writeStatusRegister3", RegArgs(reg),
                 writeStatusRegister3(Start(w, <<>>), reg))

Call_readSFDPRegister ==
    /\ Ready
    /\ \E w \in Wires, addr \in Addrs, len \in 0..MaxLen :
          Finish("readSFDPRegister", ReadArgs(addr, len),
                 readSFDPRegister(Start(w, EmptyBuffer), addr, len))

Call_eraseSecurityRegister ==
    /\ Ready
    /\ \E w \in Wires, addr \in Addrs :
          Finish("eraseSecurityRegister", AddrArgs(addr),
                 eraseSecurityRegister(Start(w, <<>>), addr))

Call_programSecurityRegister ==
    /\ Ready
    /\ \E w \in Wires, addr \in Addrs, buff \in WriteBuffers,
          len \in 0..MaxLen :
          Finish("programSecurityRegister", WriteArgs(addr, buff, len),
                 programSecurityRegister(Start(w, buff), addr, buff, len))

Call_readSecurityRegister ==
    /\ Ready
    /\ \E w \in Wires, addr \in Addrs, len \in 0..MaxLen :
          Finish("readSecurityRegister", ReadArgs(addr, len),
                 readSecurityRegister(Start(w, EmptyBuffer), addr, len))

Call_eraseProgramSuspend ==
    /\ Ready
    /\ \E w \in Wires :
          Finish("eraseProgramSuspend", NoArgs, eraseProgramSuspend(Start(w, <<>>)))

Call_eraseProgramResume ==
    /\ Ready
    /\ \E w \in Wires :
          Finish("eraseProgramResume", NoArgs, eraseProgramResume(Start(w, <<>>)))

Call_powerDown ==
    /\ Ready
    /\ \E w \in Wires : Finish("powerDown", NoArgs, powerDown(Start(w, <<>>)))

Call_enableReset ==
    /\ Ready
    /\ \E w \in Wires :
          Finish("enableReset", NoArgs, enableReset(Start(w, <<>>)))

Call_resetDevice ==
    /\ Ready
    /\ \E w \in Wires :
          Finish("resetDevice", NoArgs, resetDevice(Start(w, <<>>)))

\* the caller has taken the result of the call
Forget ==
    /\ ~Idle
    /\ op' = "none"
    /\ args' = NoArgs
    /\ ret' = ""
    /\ out' = <<>>
    /\ log' = <<>>
    /\ before' = After
    /\ UNCHANGED <<cs_level, pin_mode, in_txn, spi_clock, dev, _cs_pin,
                   _status, rt, caller, race>>

\* the device finishes its erase or program cycle, between two calls
DeviceReady ==
    /\ dev.busy
    /\ dev' = [dev EXCEPT !.busy = FALSE, !.wel = FALSE]
    /\ UNCHANGED <<cs_level, pin_mode, in_txn, spi_clock, _cs_pin, _status,
                   op, args, ret, out, log, rt, before, caller, race>>

Next ==
    \/ Call_init
    \/ Call_busy
    \/ Call_reset
    \/ Call_writeEnable
    \/ Call_volatileWriteEnable
    \/ Call_writeDisable
    \/ Call_releasePowerDown
    \/ Call_readManufacturerId
    \/ Call_readJedecId
    \/ Call_readUniqueId
    \/ Call_readData
    \/ Call_fastRead
    \/ Call_pageProgram
    \/ Call_sectorErase
    \/ Call_block32Erase
    \/ Call_block64Erase
    \/ Call_chipErase
    \/ Call_readStatusRegister1
    \/ Call_writeStatusRegister1
    \/ Call_readStatusRegister2
    \/ Call_writeStatusRegister2
    \/ Call_readStatusRegister3
    \/ Call_writeStatusRegister3
    \/ Call_readSFDPRegister
    \/ Call_eraseSecurityRegister
    \/ Call_programSecurityRegister
    \/ Call_readSecurityRegister
    \/ Call_eraseProgramSuspend
    \/ Call_eraseProgramResume
    \/ Call_powerDown
    \/ Call_enableReset
    \/ Call_resetDevice
    \/ Forget
    \/ DeviceReady

Spec == Init /\ [][Next]_vars

-----------------------------------------------------------------------------
(* The same methods called with payloads of more than 256 bytes, on a      *)
(* device that is never write-enabled.                                     *)

LongCall_readData ==
    /\ Ready
    /\ \E w \in Wires, addr \in LongAddrs, len \in LongLens :
          Finish("readData", ReadArgs(addr, len),
                 readData(Start(w, LongEmptyBuffer), addr, len))

LongCall_fastRead ==
    /\ Ready
    /\ \E w \in Wires, addr \in LongAddrs, len \in LongLens :
          Finish("fastRead", ReadArgs(addr, len),
                 fastRead(Start(w, LongEmptyBuffer), addr, len))

LongCall_readSFDPRegister ==
    /\ Ready
    /\ \E w \in Wires, addr \in LongAddrs, len \in LongLens :
          Finish("readSFDPRegister", ReadArgs(addr, len),
                 readSFDPRegister(Start(w, LongEmptyBuffer), addr, len))

LongCall_readSecurityRegister ==
    /\ Ready
    /\ \E w \in Wires, addr \in LongAddrs, len \in LongLens :
          Finish("readSecurityRegister", ReadArgs(addr, len),
                 readSecurityRegister(Start(w, LongEmptyBuffer), addr, len))

LongCall_pageProgram ==
    /\ Ready
    /\ \E w \in Wires, addr \in LongAddrs, len \in LongLens :
          Finish("pageProgram", WriteArgs(addr, LongData, len),
                 pageProgram(Start(w, LongData), addr, LongData, len))

LongCall_programSecurityRegister ==
    /\ Ready
    /\ \E w \in Wires, addr \in LongAddrs, len \in LongLens :
          Finish("programSecurityRegister", WriteArgs(addr, LongData, len),
                 programSecurityRegister(Start(w, LongData), addr, LongData, len))

NextLong ==
    \/ Call_init
    \/ LongCall_readData
    \/ LongCall_fastRead
    \/ LongCall_readSFDPRegister
    \/ LongCall_readSecurityRegister
    \/ LongCall_pageProgram
    \/ LongCall_programSecurityRegister
    \/ Forget

SpecLong == Init /\ [][NextLong]_vars

-----------------------------------------------------------------------------
(* Two callers on one handle.  A method is the sequence of its bus-level   *)
(* steps (a write of the chip-select pin, the opening or closing of a      *)
(* transaction, the transfer of a byte); the steps of the two callers      *)
(* interleave in any order, since the driver takes no lock and the methods *)
(* are not atomic.                                                         *)

\* _select()
SelectSteps == <<Ins("cs", LOW, ""), Ins("begin", _spi_settings, "")>>

\* _release()
ReleaseSteps == <<Ins("cs", HIGH, ""), Ins("end", 0, "")>>

\* busy(): the last step is followed by the test of the byte read
BusySteps ==
    SelectSteps
    \o <<Ins("xfer", W25Q64_READ_STATUS_REGISTER_1, "opcode"),
         Ins("xfer", 0, "read")>>
    \o <<Ins("cs", HIGH, ""), Ins("end", 0, "busy")>>

writeEnable_steps ==
    SelectSteps \o <<Ins("xfer", W25Q64_WRITE_ENABLE, "opcode")>> \o ReleaseSteps

\* the steps of pageProgram(addr, buff, len) when busy() returns false; when
\* it returns true the method returns after the steps of busy()
pageProgram_steps(addr, buff, len) ==
    BusySteps
    \o SelectSteps
    \o <<Ins("xfer", W25Q64_PAGE_PROGRAM, "opcode")>>
    \o [i \in 1..3 |-> Ins("xfer", ShrByte(addr, (3 - i) * 8), "addr")]
    \o [i \in 1..len |-> Ins("xfer", buff[i], "write")]
    \o ReleaseSteps

\* the steps of chipErase() when busy() returns false
chipErase_steps ==
    BusySteps
    \o SelectSteps \o <<Ins("xfer", W25Q64_CHIP_ERASE, "opcode")>> \o ReleaseSteps

\* what the concurrent callers call
RaceArgs == WriteArgs(\h1234FE, <<\h5A>>, 1)
RaceOps == {"writeEnable", "pageProgram", "chipErase"}

Steps(name) ==
    IF name = "writeEnable" THEN writeEnable_steps
    ELSE IF name = "pageProgram"
    THEN pageProgram_steps(RaceArgs.addr, RaceArgs.buff, RaceArgs.len)
    ELSE IF name = "chipErase" THEN chipErase_steps
    ELSE <<>>

\* mutant: a transaction is opened only when none is open
Exec_exclusive(s, ins) ==
    IF ins.k = "cs" THEN {digitalWrite(s, ins.v)}
    ELSE IF ins.k = "begin"
    THEN (IF s.txn THEN {} ELSE {beginTransaction(s, ins.v)})
    ELSE IF ins.k = "xfer" THEN {transfer(s, ins.v, ins.n)}
    ELSE {endTransaction(s)}

\* the worlds the step ins may leave the world s in
Exec(s, ins) ==
    IF ins.k = "cs" THEN {digitalWrite(s, ins.v)}
    ELSE IF ins.k = "begin" THEN {beginTransaction(s, ins.v)}
    ELSE IF ins.k = "xfer" THEN {transfer(s, ins.v, ins.n)}
    ELSE {endTransaction(s)}

\* caller c is in a call and has a step left
Running(c) == caller[c].pc \in 1..Len(Steps(caller[c].name))

\* caller c is between the _select and the _release of its command
InOwnWindow(c) ==
    /\ Running(c)
    /\ \E i \in 1..(caller[c].pc - 1) :
          /\ Steps(caller[c].name)[i] = Ins("cs", LOW, "")
          /\ \A j \in i..(caller[c].pc - 1) :
                Steps(caller[c].name)[j] # Ins("cs", HIGH, "")

\* the step after ins in the call of caller c:
\* if(busy()) return W25Q64_BUSY;
NextPc(c, ins) ==
    IF ins = Ins("end", 0, "busy") /\ BusyBit(caller[c].st) # 0
    THEN Len(Steps(caller[c].name)) + 1
    ELSE caller[c].pc + 1

\* the history after the step ins of caller c, which left the world r and
\* is followed by the step pc of its call
Raced(c, ins, r, pc) ==
    [race EXCEPT
       !.window = IF ins.k # "cs" THEN @
                  ELSE IF ins.v = HIGH THEN 0
                  ELSE IF cs_level = HIGH THEN c ELSE @,
       !.readyAtCheck[c] = IF pc > Len(Steps(caller[c].name)) THEN FALSE
                           ELSE IF ins = Ins("xfer", 0, "read") THEN ~dev.busy
                           ELSE @,
       !.busiedBy = IF dev.busy \/ ~r.dev.busy THEN @
                    ELSE IF race.window = c THEN c ELSE 0,
       !.foreignByte = @ \/ /\ ins.k = "xfer"
                            /\ cs_level = LOW
                            /\ race.window \in Callers \ {c}
                            /\ InOwnWindow(race.window),
       !.lateCommand = IF /\ ins = Ins("xfer", W25Q64_PAGE_PROGRAM, "opcode")
                          /\ dev.busy
                          /\ race.readyAtCheck[c]
                          /\ BusyBit(caller[c].st) = 0
                          /\ race.busiedBy \in Callers \ {c}
                       THEN c ELSE 0]

\* caller c calls the method name of the handle
Begin(c, name) ==
    /\ Ready
    /\ caller[c].pc = 0
    /\ race.calls < MaxCalls
    /\ caller' = [caller EXCEPT ![c] = [NotCalling EXCEPT !.name = name, !.pc = 1]]
    /\ race' = [race EXCEPT !.calls = @ + 1, !.lateCommand = 0]
    /\ UNCHANGED <<cs_level, pin_mode, in_txn, spi_clock, dev, _cs_pin, _status,
                   op, args, ret, out, log, rt, before>>

\* either caller write-enables the device; the first programs a page and
\* the second erases the chip
Race_writeEnable == \E c \in Callers : Begin(c, "writeEnable")

Race_pageProgram == Begin(1, "pageProgram")

Race_chipErase == Begin(2, "chipErase")

\* caller c takes the next step of its call; after the last the method
\* returns
Step(c) ==
    /\ Running(c)
    /\ \E w \in Wires, ins \in {Steps(caller[c].name)[caller[c].pc]} :
          \E r \in Exec(Start(w, <<>>), ins), pc \in {NextPc(c, ins)} :
             /\ cs_level' = r.cs
             /\ in_txn' = r.txn
             /\ spi_clock' = r.clk
             /\ dev' = r.dev
             /\ caller' = [caller EXCEPT
                             ![c] = IF pc > Len(Steps(caller[c].name))
                                    THEN NotCalling
                                    ELSE [@ EXCEPT
                                            !.pc = pc,
                                            !.st = IF ins = Ins("xfer", 0, "read")
                                                   THEN r.rx ELSE @]]
             /\ race' = Raced(c, ins, r, pc)
    /\ UNCHANGED <<pin_mode, _cs_pin, _status, op, args, ret, out, log, rt,
                   before>>

Race_step == \E c \in Callers : Step(c)

\* the device finishes its program cycle
Race_ready ==
    /\ dev.busy
    /\ dev' = [dev EXCEPT !.busy = FALSE, !.wel = FALSE]
    /\ race' = [race EXCEPT !.busiedBy = 0, !.lateCommand = 0]
    /\ UNCHANGED <<cs_level, pin_mode, in_txn, spi_clock, _cs_pin, _status,
                   op, args, ret, out, log, rt, before, caller>>

\* before there is a second caller, the first calls init and may call
\* writeEnable, one call after the other
Race_init == race = NoRace /\ Call_init

Race_enable == race = NoRace /\ Call_writeEnable

NextRace ==
    \/ Race_init
    \/ Race_enable
    \/ Forget
    \/ Race_writeEnable
    \/ Race_pageProgram
    \/ Race_chipErase
    \/ Race_step
    \/ Race_ready

SpecRace == Init /\ [][NextRace]_vars

-----------------------------------------------------------------------------
(* Reading the log of a call                                               *)

IsXfer(e)   == e.e = "xfer"
IsBegin(e)  == e.e = "begin"
IsEnd(e)    == e.e = "end"
IsOpcode(e) == e.e = "xfer" /\ e.k = "opcode"

\* the bytes sent and received by the call, in order
Sent     == LET x == SelectSeq(log, IsXfer) IN [i \in 1..Len(x) |-> x[i].tx]
Received == LET x == SelectSeq(log, IsXfer) IN [i \in 1..Len(x) |-> x[i].rx]

\* the call began with a busy check: a complete status-register-1 read
BeganWithBusyCheck ==
    /\ Len(log) >= 6
    /\ log[1] = Ev("cs", LOW, 0, "")
    /\ log[2] = Ev("begin", W25Q64_SPI_SPEED, 0, "")
    /\ IsOpcode(log[3]) /\ log[3].tx = W25Q64_READ_STATUS_REGISTER_1
    /\ IsXfer(log[4]) /\ log[4].tx = 0
    /\ log[5] = Ev("cs", HIGH, 0, "")
    /\ log[6] = Ev("end", 0, 0, "")

\* the value that busy check read, and whether its bit 0 is set
BusyCheckValue == log[4].rx
ReadBusy == BusyCheckValue % 2 = 1

\* the events of the call after its busy check
AfterBusyCheck == SubSeq(log, 7, Len(log))

GatedOps ==
    {"pageProgram", "sectorErase", "block32Erase", "block64Erase", "chipErase",
     "writeStatusRegister1", "writeStatusRegister2", "writeStatusRegister3",
     "eraseSecurityRegister", "programSecurityRegister", "reset"}

\* C1: a gated mutating operation whose busy check reads a value with bit 0
\* set returns W25Q64_BUSY, and after that status read it opens no
\* transaction and transfers no byte.
C1_BusyGateRejects ==
    (op \in GatedOps /\ BeganWithBusyCheck /\ ReadBusy)
        => /\ ret = W25Q64_BUSY
           /\ AfterBusyCheck = <<>>

\* a page program of MaxLen bytes was rejected at the gate
C1_Witness ==
    /\ op = "pageProgram" /\ args.len = MaxLen /\ dev.busy
    /\ BeganWithBusyCheck /\ ReadBusy /\ ret = W25Q64_BUSY

\* the number of events of the log that satisfy Test
Count(Test(_)) == Len(SelectSeq(log, Test))

AddressedOps ==
    {"readData", "fastRead", "pageProgram", "sectorErase", "block32Erase",
     "block64Erase", "readSFDPRegister", "eraseSecurityRegister",
     "programSecurityRegister", "readSecurityRegister"}

\* the opcode of the command a method is there to send
OpcodeOf(name) ==
    CASE name = "init"                    -> W25Q64_MANUFACTURER_ID
      [] name = "busy"                    -> W25Q64_READ_STATUS_REGISTER_1
      [] name = "reset"                   -> W25Q64_RESET_DEVICE
      [] name = "writeEnable"             -> W25Q64_WRITE_ENABLE
      [] name = "volatileWriteEnable"     -> W25Q64_VOLATILE_WRITE_ENABLE
      [] name = "writeDisable"            -> W25Q64_WRITE_DISABLE
      [] name = "releasePowerDown"        -> W25Q64_RELEASE_POWER_DOWN
      [] name = "readManufacturerId"      -> W25Q64_MANUFACTURER_ID
      [] name = "readJedecId"             -> W25Q64_JEDEC_ID
      [] name = "readUniqueId"            -> W25Q64_READ_UNIQUE_ID
      [] name = "readData"                -> W25Q64_READ_DATA
      [] name = "fastRead"                -> W25Q64_FAST_READ
      [] name = "pageProgram"             -> W25Q64_PAGE_PROGRAM
      [] name = "sectorErase"             -> W25Q64_SECTOR_ERASE
      [] name = "block32Erase"            -> W25Q64_BLOCK_32_ERASE
      [] name = "block64Erase"            -> W25Q64_BLOCK_64_ERASE
      [] name = "chipErase"               -> W25Q64_CHIP_ERASE
      [] name = "readStatusRegister1"     -> W25Q64_READ_STATUS_REGISTER_1
      [] name = "writeStatusRegister1"    -> W25Q64_WRITE_STATUS_REGISTER_1
      [] name = "readStatusRegister2"     -> W25Q64_READ_STATUS_REGISTER_2
      [] name = "writeStatusRegister2"    -> W25Q64_WRITE_STATUS_REGISTER_2
      [] name = "readStatusRegister3"     -> W25Q64_READ_STATUS_REGISTER_3
      [] name = "writeStatusRegister3"    -> W25Q64_WRITE_STATUS_REGISTER_3
      [] name = "readSFDPRegister"        -> W25Q64_READ_SFDP_REGISTER
      [] name = "eraseSecurityRegister"   -> W25Q64_ERASE_SECURITY_REGISTER
      [] name = "programSecurityRegister" -> W25Q64_PROGRAM_SECURITY_REGISTER
      [] name = "readSecurityRegister"    -> W25Q64_READ_SECURITY_REGISTER
      [] name = "eraseProgramSuspend"     -> W25Q64_ERASE_PROGRAM_SUSPEND
      [] name = "eraseProgramResume"      -> W25Q64_ERASE_PROGRAM_RESUME
      [] name = "powerDown"               -> W25Q64_POWER_DOWN
      [] name = "enableReset"             -> W25Q64_ENABLE_RESET
      [] name = "resetDevice"             -> W25Q64_RESET_DEVICE

\* the places in the log where the call sends the opcode of its own command
OwnOpcodeAt == {i \in 1..Len(log) : IsOpcode(log[i]) /\ log[i].tx = OpcodeOf(op)}

\* C3: an addressed operation that gets past its busy check sends its opcode
\* once, and directly after it exactly three address bytes: (a >> 16) mod
\* 256, (a >> 8) mod 256, a mod 256.  Together they are the low 24 bits of
\* a; bits 24..31 are in no byte.
C3_AddressBytes ==
    (op \in AddressedOps /\ ret = W25Q64_OK)
        => /\ Cardinality(OwnOpcodeAt) = 1
           /\ \A i \in OwnOpcodeAt :
                 /\ Len(log) >= i + 4
                 /\ \A j \in 1..3 : IsXfer(log[i + j]) /\ log[i + j].k = "addr"
                 /\ log[i + 1].tx = (args.addr \div 65536) % 256
                 /\ log[i + 2].tx = (args.addr \div 256) % 256
                 /\ log[i + 3].tx = args.addr % 256
                 /\ log[i + 1].tx * 65536 + log[i + 2].tx * 256 + log[i + 3].tx
                       = args.addr % 16777216
                 /\ log[i + 4].k # "addr"
           /\ \A i \in 1..Len(log) :
                 log[i].k = "addr" => \E o \in OwnOpcodeAt : i \in (o + 1)..(o + 3)

\* a sector erase at an address with bits above bit 23 set went out
C3_Witness ==
    /\ op = "sectorErase" /\ ret = W25Q64_OK /\ args.addr >= 16777216
    /\ \E i \in OwnOpcodeAt : log[i + 1].tx = \h12

\* the events of the manufacturer-id query that received z for the opcode
\* and then r[0..4]
IdQuery(z, r) ==
    <<Ev("cs", LOW, 0, ""), Ev("begin", W25Q64_SPI_SPEED, 0, "")>>
    \o <<Ev("xfer", W25Q64_MANUFACTURER_ID, z, "opcode")>>
    \o [i \in 1..5 |-> Ev("xfer", 0, r[i], "read")]
    \o <<Ev("cs", HIGH, 0, ""), Ev("end", 0, 0, "")>>

\* C4: init returns W25Q64_OK exactly when the id query yields manufacturer
\* \hEF and device \h16; UNKOWN_MANUFACTURER_ID when the manufacturer is not
\* \hEF, whatever the device byte; UNKOWN_DEVICE_ID when the manufacturer is
\* \hEF and the device is not \h16; and the id query is the last thing init
\* does on the bus.
C4_InitIdentity ==
    op = "init"
        => /\ Len(log) = 13
           /\ LET r == [i \in 1..5 |-> log[6 + i].rx] IN
                 /\ SubSeq(log, 4, 13) = IdQuery(log[6].rx, r)
                 /\ (ret = W25Q64_OK) <=> (r[4] = \hEF /\ r[5] = \h16)
                 /\ r[4] # \hEF => ret = W25Q64_UNKOWN_MANUFACTURER_ID
                 /\ (r[4] = \hEF /\ r[5] # \h16) => ret = W25Q64_UNKOWN_DEVICE_ID

\* init met a chip with the right device id and the wrong manufacturer id
C4_Witness ==
    /\ op = "init" /\ ret = W25Q64_UNKOWN_MANUFACTURER_ID
    /\ log[10].rx # \hEF /\ log[11].rx = \h16

\* a command of one opcode byte in a transaction of its own
OneByteCommand(opcode, rx) ==
    <<Ev("cs", LOW, 0, ""), Ev("begin", W25Q64_SPI_SPEED, 0, ""),
      Ev("xfer", opcode, rx, "opcode"), Ev("cs", HIGH, 0, ""), Ev("end", 0, 0, "")>>

\* C5: reset(), when its busy check reads not busy, sends enable-reset
\* (\h66) in a transaction of its own and reset-device (\h99) as the very
\* next byte on the bus, and returns W25Q64_OK; when the busy check reads
\* busy, it sends neither and returns W25Q64_BUSY.
C5_Reset ==
    op = "reset"
        => /\ BeganWithBusyCheck
           /\ ~ReadBusy =>
                 /\ ret = W25Q64_OK
                 /\ Len(log) = 16
                 /\ AfterBusyCheck =
                       OneByteCommand(W25Q64_ENABLE_RESET, log[9].rx)
                       \o OneByteCommand(W25Q64_RESET_DEVICE, log[14].rx)
                 /\ Sent = <<W25Q64_READ_STATUS_REGISTER_1, 0, \h66, \h99>>
           /\ ReadBusy =>
                 /\ ret = W25Q64_BUSY
                 /\ \A i \in 1..Len(Sent) : Sent[i] \notin {\h66, \h99}

\* reset() found the device ready and reset it
C5_Witness ==
    /\ op = "reset" /\ ret = W25Q64_OK /\ ~ReadBusy
    /\ Sent = <<W25Q64_READ_STATUS_REGISTER_1, 0, \h66, \h99>>


\* C6: round trip.  writeEnable(), then pageProgram(A, data, N) on N erased
\* cells of one page returning W25Q64_OK, then readData(A, buf, N) returning
\* W25Q64_OK (so that the device was found ready) leaves buf[0..N-1] equal
\* to data[0..N-1].
C6_RoundTrip ==
    (op = "readData" /\ rt.stage = 3)
        => SubSeq(out, 1, Len(rt.data)) = rt.data


UngatedReads ==
    {"readManufacturerId", "readJedecId", "readUniqueId",
     "readStatusRegister1", "readStatusRegister2", "readStatusRegister3"}
GatedReads ==
    {"readData", "fastRead", "readSFDPRegister", "readSecurityRegister"}

\* the call sent one command, its own, with no busy check before it
OwnCommandOnly ==
    /\ Count(IsOpcode) = 1
    /\ Len(log) >= 3 /\ IsOpcode(log[3]) /\ log[3].tx = OpcodeOf(op)

\* C7, as claimed: no read-only operation (identification, data, SFDP and
\* security-register reads, status-register reads) checks busy or returns
\* W25Q64_BUSY; each sends its command whatever the device's busy bit.
C7_ReadsNeverCheckBusy ==
    op \in (UngatedReads \cup GatedReads)
        => (ret # W25Q64_BUSY /\ OwnCommandOnly)

\* C7, amended: readManufacturerId, readJedecId, readUniqueId and
\* readStatusRegister1/2/3 make no busy check, send their command whatever
\* the device's busy bit and return W25Q64_OK; readData, fastRead,
\* readSFDPRegister and readSecurityRegister begin with a busy check, return
\* W25Q64_BUSY without sending their command when it reads bit 0 set, and
\* send their command and return W25Q64_OK otherwise.
C7_OnlyIdAndStatusReadsUngated ==
    /\ op \in UngatedReads => (ret = W25Q64_OK /\ OwnCommandOnly)
    /\ op \in GatedReads =>
          /\ BeganWithBusyCheck
          /\ ReadBusy => (ret = W25Q64_BUSY /\ AfterBusyCheck = <<>>)
          /\ ~ReadBusy => (ret = W25Q64_OK /\ Cardinality(OwnOpcodeAt) = 1)

\* the JEDEC id was asked for, and the command sent, while the device was busy
C7_Witness ==
    /\ op = "readJedecId" /\ dev.busy /\ ret = W25Q64_OK
    /\ Sent[1] = W25Q64_JEDEC_ID

\* the call sent the opcode of its own command
Completed == OwnOpcodeAt # {}

IdentityErrors == {W25Q64_UNKOWN_MANUFACTURER_ID, W25Q64_UNKOWN_DEVICE_ID}

\* C8, as claimed: every public operation returns a status code of
\* W25Q64_status_t; W25Q64_BUSY only when its busy check read bit 0 set; an
\* identity error only from init; W25Q64_OK whenever it sent its command
\* (and, for init, found the expected ids).
C8_StatusOfEveryOperation ==
    op # "none"
        => /\ ret \in W25Q64_status_t
           /\ ret = W25Q64_BUSY => (BeganWithBusyCheck /\ ReadBusy)
           /\ ret \in IdentityErrors => op = "init"
           /\ (Completed /\ ret \notin IdentityErrors) => ret = W25Q64_OK

\* C8, amended: busy() returns a bool, true exactly when the status read has
\* bit 0 set; every other public operation returns a status code of
\* W25Q64_status_t; W25Q64_BUSY only when its busy check read bit 0 set; an
\* identity error only from init; W25Q64_OK whenever it sent its command
\* (and, for init, found the expected ids).
C8_StatusExceptBusy ==
    op # "none"
        => IF op = "busy"
           THEN /\ ret \in {true, false}
                /\ BeganWithBusyCheck
                /\ (ret = true) <=> ReadBusy
           ELSE /\ ret \in W25Q64_status_t
                /\ ret = W25Q64_BUSY => (BeganWithBusyCheck /\ ReadBusy)
                /\ ret \in IdentityErrors => op = "init"
                /\ (Completed /\ ret \notin IdentityErrors) => ret = W25Q64_OK

\* busy() was called on a busy device and returned true
C8_Witness == op = "busy" /\ ret = true /\ dev.busy

\* C9: readManufacturerId sends \h90 and then exactly five zero bytes, and
\* returns the bytes received at offsets 3 and 4 of the 5-byte response as
\* manufacturer and device id, whatever was received at offsets 0..2.
C9_ManufacturerId ==
    op = "readManufacturerId"
        => /\ Sent = <<W25Q64_MANUFACTURER_ID, 0, 0, 0, 0, 0>>
           /\ out = <<Received[2 + 3], Received[2 + 4]>>
           /\ ret = W25Q64_OK

\* the response was 00 00 00 EF 16
C9_Witness ==
    /\ op = "readManufacturerId"
    /\ SubSeq(Received, 2, 6) = <<0, 0, 0, \hEF, \h16>>
    /\ out = <<\hEF, \h16>>

\* C10: readJedecId sends \h9F and then exactly three zero bytes, and returns
\* the three bytes received for them as manufacturer, memory type and
\* capacity, in that order; no dummy byte comes before them.
C10_JedecId ==
    op = "readJedecId"
        => /\ Sent = <<W25Q64_JEDEC_ID, 0, 0, 0>>
           /\ out = <<Received[2], Received[3], Received[4]>>
           /\ ret = W25Q64_OK

\* the device answered EF 40 17
C10_Witness ==
    /\ op = "readJedecId"
    /\ SubSeq(Received, 2, 4) = <<\hEF, \h40, \h17>>
    /\ out = <<\hEF, \h40, \h17>>

\* the places in the log where a bus transaction is opened
BeginAt == {i \in 1..Len(log) : IsBegin(log[i])}

\* the first transaction the call opened
FirstBegin == log[CHOOSE i \in BeginAt : \A j \in BeginAt : i <= j]

BusyGatedOps == GatedOps \cup GatedReads

IsStatusRead1(e) == IsOpcode(e) /\ e.tx = W25Q64_READ_STATUS_REGISTER_1

\* C12: every call of a busy-gated operation reads status register 1 exactly
\* once, at its start, whether the value read has bit 0 set or not; when it
\* has, the call returns W25Q64_BUSY with that read as its only bus activity.
C12_SingleBusyCheck ==
    op \in BusyGatedOps
        => /\ BeganWithBusyCheck
           /\ Count(IsStatusRead1) = 1
           /\ ReadBusy => (ret = W25Q64_BUSY /\ Len(log) = 6)
           /\ ret = W25Q64_BUSY => (ReadBusy /\ Count(IsXfer) = 2)

\* a chip erase found the device busy and gave up after one status read
C12_Witness ==
    /\ op = "chipErase" /\ before.busy /\ ret = W25Q64_BUSY
    /\ Sent = <<W25Q64_READ_STATUS_REGISTER_1, 0>>

IsWriteEnable(e) == IsOpcode(e) /\ e.tx = W25Q64_WRITE_ENABLE

\* C13: the write-enable opcode (\h06) goes out only in a call of
\* writeEnable(), once; no other operation sends it.  A program, erase,
\* status-register write, security-register or reset operation acts on bit 0
\* of its one status read alone: it sends its command and returns W25Q64_OK
\* exactly when that bit is clear, whatever the write-enable latch (bit 1).
C13_NoAutoWriteEnable ==
    /\ op = "writeEnable" => Count(IsWriteEnable) = 1
    /\ (op # "none" /\ op # "writeEnable") => Count(IsWriteEnable) = 0
    /\ op \in GatedOps
          => /\ Count(IsStatusRead1) = 1
             /\ ~ReadBusy <=> (ret = W25Q64_OK /\ Cardinality(OwnOpcodeAt) = 1)
             /\ ReadBusy <=> (ret = W25Q64_BUSY /\ OwnOpcodeAt = {})

\* a sector erase was sent although the status read showed the write-enable
\* latch clear
C13_Witness ==
    /\ op = "sectorErase" /\ before.cs = HIGH /\ BusyCheckValue = 0
    /\ ret = W25Q64_OK
    /\ Sent[3] = W25Q64_SECTOR_ERASE /\ ~dev.busy

PayloadWrites == {"pageProgram", "programSecurityRegister"}

\* the number of bytes a payload operation transfers before its payload: the
\* busy check (2), the opcode, three address bytes and, for the reads other
\* than readData, a dummy byte
HeaderLen == IF op \in GatedReads \ {"readData"} THEN 7 ELSE 6

\* C14: a read operation that gets past its busy check sends exactly len
\* zero bytes after its header, stores the i-th byte received for them in
\* buff[i] and writes no other cell of the buffer; a write operation sends
\* exactly buff[0..len-1], in order, after its header and leaves the buffer
\* as it was.  This for every len, 0 and more than 256 included.
C14_PayloadExact ==
    /\ (op \in GatedReads /\ ret = W25Q64_OK)
          => /\ Len(Sent) = HeaderLen + args.len
             /\ \A i \in 1..args.len :
                   /\ Sent[HeaderLen + i] = 0
                   /\ out[i] = Received[HeaderLen + i]
             /\ \A i \in (args.len + 1)..Len(out) : out[i] = Unset
    /\ (op \in PayloadWrites /\ ret = W25Q64_OK)
          => /\ Len(Sent) = HeaderLen + args.len
             /\ \A i \in 1..args.len : Sent[HeaderLen + i] = args.buff[i]
             /\ out = args.buff

\* an SFDP read of more than 256 bytes stored the signature first, and a
\* byte in the cell after the 256th
C14_Witness ==
    /\ op = "readSFDPRegister" /\ args.len > 256 /\ ret = W25Q64_OK
    /\ before.cs = HIGH /\ args.addr = 0
    /\ SubSeq(out, 1, 4) = <<\h53, \h46, \h44, \h50>>
    /\ out[257] = Erased /\ out[258] = Unset

IsDummy(e) == IsXfer(e) /\ e.k = "dummy"

DummyReads == {"fastRead", "readSFDPRegister", "readSecurityRegister"}

EraseOps ==
    {"sectorErase", "block32Erase", "block64Erase", "chipErase",
     "eraseSecurityRegister"}

\* C15: fastRead, readSFDPRegister and readSecurityRegister, once past the
\* busy check, send exactly one dummy byte, of value zero, directly after
\* the third address byte and before the first payload byte, and the byte
\* received for it is in no cell of the buffer: buff[i] is the byte
\* received i+1 transfers after the dummy.  readData, pageProgram,
\* programSecurityRegister and the erase operations send no dummy byte:
\* what follows their last address byte is their payload or the end of
\* the command.
C15_DummyByte ==
    /\ (op \in DummyReads /\ ret = W25Q64_OK)
          => /\ Count(IsDummy) = 1
             /\ \A i \in OwnOpcodeAt :
                   /\ log[i + 3].k = "addr"
                   /\ log[i + 4] = Ev("xfer", 0, Received[7], "dummy")
                   /\ \A j \in 1..args.len :
                         /\ log[i + 4 + j].k = "read"
                         /\ out[j] = log[i + 4 + j].rx
                   /\ log[i + 5 + args.len] = Ev("cs", HIGH, 0, "")
    /\ (op \in ({"readData"} \cup PayloadWrites \cup EraseOps)
        /\ ret = W25Q64_OK)
          => /\ Count(IsDummy) = 0
             /\ \A i \in OwnOpcodeAt :
                   LET last == IF op = "chipErase" THEN i ELSE i + 3
                       n    == IF op \in EraseOps THEN 0 ELSE args.len
                   IN  /\ \A j \in 1..n :
                             log[last + j].k
                                = (IF op = "readData" THEN "read" ELSE "write")
                       /\ log[last + n + 1] = Ev("cs", HIGH, 0, "")

\* a fast read returned a programmed cell, and not the byte that came in
\* during the dummy transfer
C15_Witness ==
    /\ op = "fastRead" /\ ret = W25Q64_OK /\ args.len >= 1
    /\ before.cs = HIGH
    /\ out[1] = \hA5 /\ Received[7] # \hA5

\* the kinds of the bytes transferred by the call, in order
Kinds == LET x == SelectSeq(log, IsXfer) IN [i \in 1..Len(x) |-> x[i].k]

\* C16: readUniqueId sends \h4B, then exactly four zero dummy bytes whose
\* responses go nowhere, then exactly eight zero bytes whose responses are
\* unique_id[0..7] in order; it writes no other cell and returns W25Q64_OK.
C16_UniqueId ==
    op = "readUniqueId"
        => /\ Sent = <<W25Q64_READ_UNIQUE_ID>> \o [i \in 1..12 |-> 0]
           /\ Kinds = <<"opcode">> \o [i \in 1..4 |-> "dummy"]
                                   \o [i \in 1..8 |-> "read"]
           /\ out = SubSeq(Received, 6, 13)
           /\ Len(out) = 8
           /\ ret = W25Q64_OK

\* the unique id of the device was read in a command of its own
C16_Witness ==
    /\ op = "readUniqueId" /\ before.cs = HIGH
    /\ out = UniqueId /\ ret = W25Q64_OK

\* C17: whenever a public operation returns, chip-select is high.
C17_ChipSelectHighOnReturn == op # "none" => cs_level = HIGH

IsCs(e) == e.e = "cs"

\* the places in the log where chip-select is written
CsAt == {i \in 1..Len(log) : IsCs(log[i])}

\* the level of chip-select just before event i of the call
LevelBefore(i) ==
    IF \E j \in CsAt : j < i
    THEN log[CHOOSE j \in CsAt : j < i /\ \A k \in CsAt : k < i => k <= j].tx
    ELSE before.cs

\* C18: every byte of every call is transferred while chip-select is low,
\* after a write of LOW in the same call with no write of HIGH in between;
\* init makes the pin an output and drives it high before its first
\* transfer.
C18_TransfersUnderChipSelect ==
    /\ op # "none"
          => \A i \in 1..Len(log) :
                IsXfer(log[i])
                   => /\ LevelBefore(i) = LOW
                      /\ \E j \in CsAt : j < i /\ log[j].tx = LOW
    /\ op = "init"
          => /\ log[1] = Ev("mode", 0, 0, "OUTPUT")
             /\ log[2] = Ev("cs", HIGH, 0, "")
             /\ \A i \in 1..2 : ~IsXfer(log[i])
             /\ pin_mode = "OUTPUT"

\* init drove the pin high, then asserted it and transferred the id query
C18_Witness ==
    /\ op = "init" /\ Count(IsXfer) = 6
    /\ log[2] = Ev("cs", HIGH, 0, "") /\ log[4] = Ev("cs", LOW, 0, "")
    /\ IsOpcode(log[6])

\* event i is a write of LOW to chip-select while it was high
FallingEdgeAt(i) == IsCs(log[i]) /\ log[i].tx = LOW /\ LevelBefore(i) = HIGH

\* C19: every opcode a call sends, that of a busy check included, is the
\* first byte transferred after a high-to-low transition of chip-select.
C19_OpcodeStartsCommand ==
    op # "none"
        => \A i \in 1..Len(log) :
              IsOpcode(log[i])
                 => \E j \in 1..(i - 1) :
                       /\ FallingEdgeAt(j)
                       /\ \A k \in (j + 1)..(i - 1) :
                             ~IsXfer(log[k]) /\ ~IsCs(log[k])

\* the call sent the opcode of a gated mutating command
SentMutation ==
    \E i \in 1..Len(log) :
       /\ IsOpcode(log[i])
       /\ log[i].tx \in {OpcodeOf(n) : n \in GatedOps} \cup {W25Q64_ENABLE_RESET}

\* C20: no call of a gated mutating operation sends its command while the
\* busy bit of the device is set.  (Within a call the bit is set only by
\* the command itself, so it is the bit the device had when the call began.)
C20_NoMutationWhileBusy ==
    (op \in GatedOps /\ SentMutation) => ~before.busy

\* the control commands and the opcode the claim gives for each
ControlOpcode ==
    [writeEnable         |-> \h06,
     volatileWriteEnable |-> \h50,
     writeDisable        |-> \h04,
     releasePowerDown    |-> \hAB,
     eraseProgramSuspend |-> \h75,
     eraseProgramResume  |-> \h7A,
     powerDown           |-> \hB9,
     enableReset         |-> \h66,
     resetDevice         |-> \h99]

ControlOps == DOMAIN ControlOpcode

\* C22: writeEnable, volatileWriteEnable, writeDisable, releasePowerDown,
\* eraseProgramSuspend, eraseProgramResume, powerDown, enableReset and
\* resetDevice, called directly, make no busy check, transfer exactly one
\* byte in one transaction, their opcode (\h06, \h50, \h04, \hAB, \h75, \h7A,
\* \hB9, \h66, \h99), and return W25Q64_OK whether the device is busy or not.
C22_UngatedControl ==
    op \in ControlOps
        => /\ log = OneByteCommand(ControlOpcode[op], log[3].rx)
           /\ Sent = <<ControlOpcode[op]>>
           /\ OpcodeOf(op) = ControlOpcode[op]
           /\ ret = W25Q64_OK

\* power-down was sent to a device that was busy
C22_Witness ==
    /\ op = "powerDown" /\ before.busy /\ before.cs = HIGH
    /\ Sent = <<\hB9>> /\ ret = W25Q64_OK

\* the public methods that are called after init
Methods == {n \in BusyGatedOps \cup UngatedReads \cup ControlOps \cup {"busy"} : TRUE}

\* the method of that name run in the world s with the arguments a
Apply(name, s, a) ==
    CASE name = "busy"                    -> busy(s)
      [] name = "reset"                   -> reset(s)
      [] name = "writeEnable"             -> writeEnable(s)
      [] name = "volatileWriteEnable"     -> volatileWriteEnable(s)
      [] name = "writeDisable"            -> writeDisable(s)
      [] name = "releasePowerDown"        -> releasePowerDown(s)
      [] name = "readManufacturerId"      -> readManufacturerId(s)
      [] name = "readJedecId"             -> readJedecId(s)
      [] name = "readUniqueId"            -> readUniqueId(s)
      [] name = "readData"                -> readData(s, a.addr, a.len)
      [] name = "fastRead"                -> fastRead(s, a.addr, a.len)
      [] name = "pageProgram"             -> pageProgram(s, a.addr, a.buff, a.len)
      [] name = "sectorErase"             -> sectorErase(s, a.addr)
      [] name = "block32Erase"            -> block32Erase(s, a.addr)
      [] name = "block64Erase"            -> block64Erase(s, a.addr)
      [] name = "chipErase"               -> chipErase(s)
      [] name = "readStatusRegister1"     -> readStatusRegister1(s)
      [] name = "writeStatusRegister1"    -> writeStatusRegister1(s, a.reg)
      [] name = "readStatusRegister2"     -> readStatusRegister2(s)
      [] name = "writeStatusRegister2"    -> writeStatusRegister2(s, a.reg)
      [] name = "readStatusRegister3"     -> readStatusRegister3(s)
      [] name = "writeStatusRegister3"    -> writeStatusRegister3(s, a.reg)
      [] name = "readSFDPRegister"        -> readSFDPRegister(s, a.addr, a.len)
      [] name = "eraseSecurityRegister"   -> eraseSecurityRegister(s, a.addr)
      [] name = "programSecurityRegister" ->
            programSecurityRegister(s, a.addr, a.buff, a.len)
      [] name = "readSecurityRegister"    -> readSecurityRegister(s, a.addr, a.len)
      [] name = "eraseProgramSuspend"     -> eraseProgramSuspend(s)
      [] name = "eraseProgramResume"      -> eraseProgramResume(s)
      [] name = "powerDown"               -> powerDown(s)
      [] name = "enableReset"             -> enableReset(s)
      [] name = "resetDevice"             -> resetDevice(s)

\* the arguments the comparison of two runs is made with
SameArgs == [addr |-> \h1234FE, len |-> MaxLen,
             buff |-> [i \in 1..MaxLen |-> \hA5], reg |-> \h02]

\* the bytes sent and the bytes received in the log l
SentIn(l)     == LET x == SelectSeq(l, IsXfer) IN [i \in 1..Len(x) |-> x[i].tx]
ReceivedIn(l) == LET x == SelectSeq(l, IsXfer) IN [i \in 1..Len(x) |-> x[i].rx]

\* the runs a and b of one call send the same bytes and return the same
\* value if they receive the same bytes
SameBehaviour(a, b) ==
    ReceivedIn(a.log) = ReceivedIn(b.log)
        => (SentIn(a.log) = SentIn(b.log) /\ a.ret = b.ret)

\* the start of a call on a second handle of the same pin whose history
\* is another: another stored status, or the pin and the bus left in the
\* other state
OtherStarts(s) ==
    {[s EXCEPT !.status = st] : st \in W25Q64_status_t \ {s.status}}
    \cup {[s EXCEPT !.cs = IF s.cs = HIGH THEN LOW ELSE HIGH, !.txn = ~s.txn]}

\* the call name(SameArgs) run on this handle and run on a second handle
\* behave the same
Stateless(name, w) ==
    \A s2 \in OtherStarts(Start(w, SameArgs.buff)) :
       SameBehaviour(Apply(name, Start(w, SameArgs.buff), SameArgs),
                     Apply(name, s2, SameArgs))

\* C23, as claimed: the stored status is the last status, the status code
\* the last operation returned, so that it differs with the call history;
\* and what a call sends and returns is a function of its arguments and of
\* the bytes it receives alone.
C23_LastStatusStoredNotRead ==
    /\ (op # "none" /\ op # "busy") => _status = ret
    /\ Ready => \A name \in Methods, w \in Wires : Stateless(name, w)

\* C23, amended: the stored status is written by init alone, with the
\* W25Q64_OK that readManufacturerId returns, so that after init it is
\* W25Q64_OK on every handle whatever the call history and whatever init
\* itself returned; no operation reads it: what a call sends and returns is
\* a function of its arguments and of the bytes it receives alone, the same
\* for any stored status and any state the pin and the bus were left in.
C23_StatusWrittenByInitOnly ==
    /\ _cs_pin # NoPin => _status = W25Q64_OK
    /\ Ready => \A name \in Methods, w \in Wires : Stateless(name, w)

\* between two calls, after a readUniqueId left chip-select low on a
\* write-enabled device: a page program behaves the same on this handle and
\* on one whose stored status is W25Q64_BUSY
C23_Witness ==
    /\ Ready /\ cs_level = LOW /\ dev.wel /\ _status = W25Q64_OK
    /\ \E w \in Wires :
          LET a == Apply("pageProgram", Start(w, SameArgs.buff), SameArgs)
              b == Apply("pageProgram",
                         [Start(w, SameArgs.buff) EXCEPT !.status = W25Q64_BUSY],
                         SameArgs)
          IN  /\ a.ret = W25Q64_OK /\ b.ret = W25Q64_OK
              /\ SentIn(a.log) = SentIn(b.log)
              /\ Len(SentIn(a.log)) = 6 + MaxLen

\* C21: the driver arbitrates nothing between two callers of one handle: a
\* caller outside a call can begin one and a caller in a call can take its
\* next bus-level step, wherever the other caller is in its call and
\* whatever the state of the pin, the bus and the device.
C21_NoArbitration ==
    _cs_pin # NoPin /\ Idle =>
       \A c \in Callers :
          /\ (caller[c].pc = 0 /\ race.calls < MaxCalls)
                => \A name \in RaceOps : ENABLED Begin(c, name)
          /\ Running(c) => ENABLED Step(c)

\* both have happened: (a) a byte of one caller was transferred in the
\* chip-select window of the other's command, and (b) the page-program
\* opcode of a caller was sent to a busy device, which was ready when that
\* caller's busy() read a status with bit 0 clear and which the other
\* caller's command made busy since
C21_Witness ==
    /\ race.foreignByte
    /\ race.lateCommand \in Callers
    /\ race.busiedBy \in Callers \ {race.lateCommand}

====
